---- MODULE Spec2Model ----
(***************************************************************************)
(* A model of ZarrLoader (src/src/zarrLoader.ts): construction, the        *)
(* channel-selection set and its validation, the fan-out / fan-in of       *)
(* getTile and getRaster over the store, the onTileError hook and the      *)
(* splitting of a packed buffer into channel views.                        *)
(*                                                                         *)
(* Arrays are indexed from 0 in the source and from 1 in TLA+: an axis or  *)
(* level number keeps its source value and At adds the 1.                  *)
(***************************************************************************)
EXTENDS Integers, Sequences, FiniteSets, TLC

VARIABLES
    args,               \* the constructor's arguments (fixed)
    loader,             \* the fields the constructor sets (fixed)
    channelSelections,  \* this._channelSelections
    shared,             \* the caller still holds the inner arrays of the set
    setResult,          \* how the last setChannelSelections call ended
    call,               \* the getTile / getRaster call in flight, its reads
    writes,             \* number of writes the caller made to aliased arrays
    decoded             \* the last _decodeChannels application on its own

vars == <<args, loader, channelSelections, shared, setResult, call, writes, decoded>>

(* ------------------------------ bounds ------------------------------- *)
MaxSels == 2
MaxIndex == 1
MaxLevels == 2
MaxWrites == 1
MaxBufLen == 24
MaxChannels == 6

(* ----------------------------- helpers ------------------------------- *)
At(seq, i) == seq[i + 1]

Zeros(n) == [i \in 1..n |-> 0]

\* null, the "whole axis" entry of a coordinate vector
Null == 0 - 1

\* an omitted level (z undefined)
Undefined == 0 - 1

(* ------------------------- the store's arrays ------------------------ *)
\* Base arrays the loader is built from: plain 2-d, multichannel with one
\* channel per chunk, multichannel packed in a chunk, RGBA-interleaved, and
\* a stack of RGBA images with the stack axis packed in a chunk.
BaseArrays ==
    { [shape |-> <<8, 8>>,       chunks |-> <<2, 2>>],
      [shape |-> <<4, 8, 8>>,    chunks |-> <<1, 2, 2>>],
      [shape |-> <<4, 8, 8>>,    chunks |-> <<2, 2, 2>>],
      [shape |-> <<8, 8, 4>>,    chunks |-> <<2, 2, 4>>],
      [shape |-> <<4, 8, 8, 4>>, chunks |-> <<2, 2, 2, 4>>] }

\* level k of a pyramid over base: every axis shrinks from level to level
DownSampled(base, k) ==
    [shape |-> [d \in DOMAIN base.shape |-> base.shape[d] - k],
     chunks |-> base.chunks]

Pyramid(base, n) == [k \in 1..n |-> DownSampled(base, k - 1)]

\* utils.ensureDecreasing
ensureDecreasing(shapes) ==
    \A k \in 1..(Len(shapes) - 1) :
        \A d \in DOMAIN shapes[k] : shapes[k + 1][d] < shapes[k][d]

\* utils.guessRgb
guessRgb(shape) ==
    /\ Len(shape) > 2
    /\ shape[Len(shape)] \in {3, 4}

(* ---------------------------- constructor ---------------------------- *)
NoDimensions == [given |-> FALSE, length |-> 0]

\* Pyramids are built over the bases that take one selection only.
PyramidBases == { b \in BaseArrays : Len(b.shape) = 2 \/ b.chunks[1] > 1 }

\* The arguments the loader is built with. data is kept as a sequence and
\* isArray says whether the caller passed a list of arrays
\* (Array.isArray(data)) or one array. Each argument is varied with the
\* others at their defaults: the isRgb argument (omitted, true, false; an
\* interleaved array has the Y, X and channel axes, so true is given for
\* rank >= 3 only), the dimension labels (one per axis, or one too few),
\* and the pyramid (1..MaxLevels shrinking levels, or a level repeated).
CtorArgs ==
    { [isArray |-> FALSE, data |-> <<b>>, dimensions |-> NoDimensions, isRgb |-> r] :
        b \in BaseArrays, r \in {"omitted", "true", "false"} }
    \cup
    { [isArray |-> FALSE, data |-> <<b>>,
       dimensions |-> [given |-> TRUE, length |-> Len(b.shape) - short],
       isRgb |-> "omitted"] : b \in BaseArrays, short \in {0, 1} }
    \cup
    { [isArray |-> TRUE, data |-> Pyramid(b, n), dimensions |-> NoDimensions,
       isRgb |-> "omitted"] : b \in PyramidBases, n \in 1..MaxLevels }
    \cup
    { [isArray |-> TRUE, data |-> <<b, b>>, dimensions |-> NoDimensions,
       isRgb |-> "omitted"] : b \in PyramidBases }

ValidCtorArgs == { a \in CtorArgs : a.isRgb = "true" => Len(a.data[1].shape) >= 3 }

\* this.isRgb = isRgb ? isRgb : guessRgb(base.shape)
IsRgbField(isRgbArg, shape) ==
    IF isRgbArg = "true" THEN TRUE ELSE guessRgb(shape)

XIndex(isRgb, rank) == IF isRgb THEN rank - 2 ELSE rank - 1

YIndex(isRgb, rank) == IF isRgb THEN rank - 3 ELSE rank - 2

Constructor(a) ==
    LET base == a.data[1]
        rank == Len(base.shape)
        rgb == IsRgbField(a.isRgb, base.shape)
        throws == \/ a.isArray /\ ~ensureDecreasing([k \in DOMAIN a.data |-> a.data[k].shape])
                  \/ a.dimensions.given /\ a.dimensions.length # rank
    IN  [constructed |-> ~throws,
         numLevels |-> IF a.isArray THEN Len(a.data) ELSE 1,
         isRgb |-> rgb,
         hasDimensions |-> a.dimensions.given,
         xIndex |-> XIndex(rgb, rank),
         yIndex |-> YIndex(rgb, rank),
         tileSize |-> At(base.chunks, XIndex(rgb, rank))]

isPyramid == args.isArray

base == args.data[1]

Rank == Len(base.shape)

\* get _isUnchunkedMultiChannel
isUnchunkedMultiChannel ==
    IF loader.yIndex - 1 >= 0 THEN At(base.chunks, loader.yIndex - 1) > 1 ELSE FALSE

(* ----------------------- setChannelSelections ------------------------ *)
\* What the caller passes: one selection (nested = FALSE, value a vector)
\* or a list of selections (nested = TRUE, the first entry is an array).
\* A selection has at most one non-zero entry, or is one entry short, or
\* one entry long.
\* mode: "numeric" when every entry is a number, "named" when an entry is
\* a DimensionSelection whose name the resolver knows, "unknown" when the
\* resolver does not know it.
SelectionVectors ==
    { v \in [1..Rank -> 0..MaxIndex] : Cardinality({ i \in 1..Rank : v[i] # 0 }) <= 1 }
    \cup {Zeros(Rank - 1), [i \in 1..(Rank + 1) |-> MaxIndex]}

RECURSIVE SeqsUpTo(_, _)
SeqsUpTo(S, n) ==
    IF n = 0 THEN {<<>>}
    ELSE LET shorter == SeqsUpTo(S, n - 1)
         IN  shorter \cup { Append(s, x) : s \in { t \in shorter : Len(t) = n - 1 }, x \in S }

SetInputs ==
    { [nested |-> FALSE, value |-> v, mode |-> m] :
        v \in SelectionVectors, m \in {"numeric", "named", "unknown"} }
    \cup
    { [nested |-> TRUE, value |-> s, mode |-> m] :
        s \in SeqsUpTo(SelectionVectors, MaxSels) \ {<<>>},
        m \in {"numeric", "named"} }

\* Wrap channel selection in array if only one is provided
Wrap(input) == IF input.nested THEN input.value ELSE <<input.value>>

\* utils.normalizeChannelSelection: fails on an unknown name, otherwise the
\* numeric selection (a new array)
normalizeChannelSelection(mode) == IF mode = "unknown" THEN "ResolverError" ELSE "ok"

\* the map over the selections: the first throw ends the call
Normalize(input) ==
    IF ~loader.hasDimensions
    THEN IF input.mode = "numeric" THEN "ok" ELSE "NamedSelectionError"
    ELSE normalizeChannelSelection(input.mode)

\* the cardinality rule with the packed case forgotten
TooManySelectionsMut(next) == loader.isRgb /\ Len(next) > 1

TooManySelections(next) ==
    (loader.isRgb \/ isUnchunkedMultiChannel) /\ Len(next) > 1

WrongLength(sel) == Len(sel) # Len(base.shape)

IndexesChunkedAxis(sel) ==
    \E i \in 0..(Len(sel) - 1) : At(sel, i) # 0 /\ At(base.chunks, i) > 1

\* the validation loop: the first selection that fails decides the error
RECURSIVE Validate(_, _)
Validate(next, k) ==
    IF k > Len(next) THEN "ok"
    ELSE IF WrongLength(next[k]) THEN "LengthError"
    ELSE IF IndexesChunkedAxis(next[k]) THEN "ChunkError"
    ELSE Validate(next, k + 1)

SetOutcome(input) ==
    LET next == Wrap(input)
        normalized == Normalize(input)
    IN  IF normalized # "ok" THEN normalized
        ELSE IF TooManySelections(next) THEN "MultipleSelectionsError"
        ELSE Validate(next, 1)

\* the assignment made before the cardinality rule and the validation loop
StoredAfterSetMut(current, next, outcome) ==
    IF outcome \in {"NamedSelectionError", "ResolverError"} THEN current ELSE next

\* the value of this._channelSelections when the call ends with outcome:
\* the assignment is the last statement, after every throw
StoredAfterSet(current, next, outcome) ==
    IF outcome = "ok" THEN next ELSE current

\* Without dimension labels the map returns the caller's own arrays (sel as
\* number[]); the resolver returns new ones.
SetChannelSelections(input) ==
    LET outcome == SetOutcome(input)
    IN  /\ loader.constructed
        /\ channelSelections' = StoredAfterSet(channelSelections, Wrap(input), outcome)
        /\ setResult' = outcome
        /\ shared' = IF outcome = "ok" THEN ~loader.hasDimensions ELSE shared
        /\ UNCHANGED <<args, loader, call, writes, decoded>>

(* ------------------------- channel splitting ------------------------- *)
\* utils.range
range(n) == [i \in 1..n |-> i - 1]

\* subarray(offset * i, offset): the end given as a length
SubarrayOfChannelMut(length, channelChunkSize, i) ==
    [begin |-> (length * i) \div channelChunkSize,
     end |-> length \div channelChunkSize]

\* chunkData.subarray(offset * i, offset * i + offset) with
\* offset = length / channelChunkSize: subarray truncates a fractional bound
\* towards zero, and offset * i is (length * i) / channelChunkSize.
SubarrayOfChannel(length, channelChunkSize, i) ==
    [begin |-> (length * i) \div channelChunkSize,
     end |-> (length * i + length) \div channelChunkSize]

decodeChannels(length, channelChunkSize) ==
    [k \in 1..channelChunkSize |->
        SubarrayOfChannel(length, channelChunkSize, range(channelChunkSize)[k])]

(* ------------------------------ the store ---------------------------- *)
RECURSIVE Product(_)
Product(seq) == IF seq = <<>> THEN 1 ELSE Head(seq) * Product(Tail(seq))

\* length of the buffer getRawChunk returns: one whole chunk
RawChunkLength == Product(base.chunks)

\* length of the buffer getRaw returns: the open axes of the level in full
RawLength(level, key) ==
    LET shape == At(args.data, level).shape
    IN  Product([d \in DOMAIN key |-> IF key[d] = Null THEN shape[d] ELSE 1])

\* how a store read can end
ReadOutcomes == {"ok", "RangeError", "StoreError"}

(* ----------------------- getTile and getRaster ----------------------- *)
\* no call has been made
IdleCall ==
    [status |-> "idle", kind |-> "none", x |-> 0, y |-> 0, z |-> 0,
     zarr |-> FALSE, level |-> 0, sels |-> <<>>, reads |-> <<>>, values |-> <<>>,
     error |-> "none", result |-> <<>>, width |-> 0, height |-> 0, hook |-> "none"]

\* the tiles asked for
TileIndices == { [x |-> 2, y |-> 3], [x |-> 3, y |-> 2] }

\* the levels a call names: those the structure has
Levels == 0..(loader.numLevels - 1)

\* _getSource: zarr says whether the value returned is one ZarrArray (and
\* level which); for a pyramid with z omitted it is the list of arrays.
getSource(z) ==
    IF z # Undefined /\ isPyramid
    THEN [zarr |-> TRUE, level |-> z]
    ELSE [zarr |-> ~isPyramid, level |-> 0]

Put(seq, i, v) == [seq EXCEPT ![i + 1] = v]

\* getTile's chunkKey for one selection
TileChunkKey(key, x, y) == Put(Put(key, loader.yIndex, y), loader.xIndex, x)

\* getRaster's chunkKey for one selection
RasterChunkKey(key) ==
    LET yx == Put(Put(key, loader.yIndex, Null), loader.xIndex, Null)
    IN  IF loader.isRgb THEN Put(yx, Len(yx) - 1, Null)
        ELSE IF isUnchunkedMultiChannel THEN Put(yx, loader.yIndex - 1, Null)
        ELSE yx

\* every request built from the first selection
TileRequestsMut(sels, x, y) == [i \in DOMAIN sels |-> TileChunkKey(sels[1], x, y)]

\* this._channelSelections.map(...): one request per selection, in order
TileRequests(sels, x, y) == [i \in DOMAIN sels |-> TileChunkKey(sels[i], x, y)]

RasterRequests(sels) == [i \in DOMAIN sels |-> RasterChunkKey(sels[i])]

PendingRead == [st |-> "pending", key |-> <<>>]

\* The map runs to the end before the call suspends: every request is built
\* and issued from the set that is active when the call is made. A source
\* that is no ZarrArray has no getRawChunk / getRaw: every request throws a
\* TypeError and Promise.all rejects with the first.
StartCall(kind, x, y, z, requests) ==
    LET source == getSource(z)
    IN  call' = [IdleCall EXCEPT
                    !.status = IF source.zarr THEN "pending" ELSE "settled",
                    !.kind = kind, !.x = x, !.y = y, !.z = z,
                    !.zarr = source.zarr, !.level = source.level,
                    !.sels = channelSelections,
                    !.reads = requests,
                    !.values = [i \in DOMAIN requests |-> PendingRead],
                    !.error = IF source.zarr THEN "none" ELSE "TypeError"]

CanCall == loader.constructed /\ call.status \in {"idle", "returned"}

GetTile(x, y, z) ==
    /\ CanCall
    /\ StartCall("tile", x, y, z, TileRequests(channelSelections, x, y))
    /\ UNCHANGED <<args, loader, channelSelections, shared, setResult, writes, decoded>>

GetRaster(z) ==
    /\ CanCall
    /\ StartCall("raster", 0, 0, z, RasterRequests(channelSelections))
    /\ UNCHANGED <<args, loader, channelSelections, shared, setResult, writes, decoded>>

\* values pushed in the order the requests complete
CollectMut(values, i, reply) ==
    LET first == CHOOSE k \in DOMAIN values :
                    /\ values[k].st = "pending"
                    /\ \A m \in 1..(k - 1) : values[m].st # "pending"
    IN  [values EXCEPT ![first] = reply]

\* Promise.all keeps the value of request i at position i
Collect(values, i, reply) == [values EXCEPT ![i] = reply]

AllFulfilled(values) == \A i \in DOMAIN values : values[i].st = "ok"

\* One store read ends. Promise.all rejects with the first rejection and
\* fulfils when every request has; a read that ends after the rejection is
\* not cancelled, its outcome is dropped.
ReadComplete(i, outcome) ==
    /\ call.status \in {"pending", "settled"}
    /\ call.zarr
    /\ i \in DOMAIN call.values
    /\ call.values[i].st = "pending"
    /\ IF call.status = "settled"
       THEN call' = [call EXCEPT !.values[i] = [st |-> "ignored", key |-> <<>>]]
       ELSE IF outcome = "ok"
       THEN LET values == Collect(call.values, i, [st |-> "ok", key |-> call.reads[i]])
            IN  call' = [call EXCEPT
                            !.values = values,
                            !.status = IF AllFulfilled(values) THEN "settled" ELSE "pending"]
       ELSE call' = [call EXCEPT
                        !.values[i] = [st |-> "failed", key |-> <<>>],
                        !.status = "settled",
                        !.error = outcome]
    /\ UNCHANGED <<args, loader, channelSelections, shared, setResult, writes, decoded>>

Whole(key, length) == [buffer |-> key, begin |-> 0, end |-> length]

View(key, r) == [buffer |-> key, begin |-> r.begin, end |-> r.end]

BufferLength(c, key) ==
    IF c.kind = "tile" THEN RawChunkLength ELSE RawLength(c.level, key)

\* what the call returns once Promise.all has fulfilled
ReturnedData(c) ==
    LET data == [i \in DOMAIN c.values |-> c.values[i].key]
    IN  IF isUnchunkedMultiChannel
        THEN LET views == decodeChannels(BufferLength(c, data[1]),
                                         At(base.chunks, loader.yIndex - 1))
             IN  [k \in DOMAIN views |-> View(data[1], views[k])]
        ELSE [i \in DOMAIN data |-> Whole(data[i], BufferLength(c, data[i]))]

\* The call resumes after await Promise.all: it rejects with the error of
\* the first failed request, or returns the data (getRaster with the width
\* and height of the source).
Return ==
    /\ call.status = "settled"
    /\ IF call.error # "none"
       THEN call' = [call EXCEPT !.status = "returned"]
       ELSE call' = [call EXCEPT
                        !.status = "returned",
                        !.result = ReturnedData(call),
                        !.width = IF call.kind = "raster"
                                  THEN At(At(args.data, call.level).shape, loader.xIndex) ELSE 0,
                        !.height = IF call.kind = "raster"
                                   THEN At(At(args.data, call.level).shape, loader.yIndex) ELSE 0]
    /\ UNCHANGED <<args, loader, channelSelections, shared, setResult, writes, decoded>>

\* err.message.includes('RangeError')
MessageIncludesRangeError(err) == err = "RangeError"

\* the test inverted
onTileErrorMut(err) == IF MessageIncludesRangeError(err) THEN err ELSE "swallowed"

\* onTileError(err): returns for an out-of-bounds error, rethrows the rest
onTileError(err) == IF ~MessageIncludesRangeError(err) THEN err ELSE "swallowed"

\* the caller hands the error of a rejected getTile to the hook
OnTileError ==
    /\ call.status = "returned"
    /\ call.kind = "tile"
    /\ call.error # "none"
    /\ call.hook = "none"
    /\ call' = [call EXCEPT !.hook = onTileError(call.error)]
    /\ UNCHANGED <<args, loader, channelSelections, shared, setResult, writes, decoded>>

(* ---------------------- writes through aliases ----------------------- *)
\* The accessor returns this._channelSelections itself, and without
\* dimension labels the set keeps the very arrays the caller passed: an
\* element write by the caller is a write to the active set.
WriteThroughAccessor(i, j, v) ==
    /\ loader.constructed
    /\ writes < MaxWrites
    /\ i \in DOMAIN channelSelections
    /\ j \in DOMAIN channelSelections[i]
    /\ channelSelections[i][j] # v
    /\ channelSelections' = [channelSelections EXCEPT ![i][j] = v]
    /\ writes' = writes + 1
    /\ UNCHANGED <<args, loader, shared, setResult, call, decoded>>

WriteToPassedSelection(i, j, v) ==
    /\ shared
    /\ writes < MaxWrites
    /\ i \in DOMAIN channelSelections
    /\ j \in DOMAIN channelSelections[i]
    /\ channelSelections[i][j] # v
    /\ channelSelections' = [channelSelections EXCEPT ![i][j] = v]
    /\ writes' = writes + 1
    /\ UNCHANGED <<args, loader, shared, setResult, call, decoded>>

(* ------------------- channel splitting on its own -------------------- *)
DecodeChannels(length, channelChunkSize) ==
    /\ decoded' = [length |-> length, channels |-> channelChunkSize,
                   views |-> decodeChannels(length, channelChunkSize)]
    /\ UNCHANGED <<args, loader, channelSelections, shared, setResult, call, writes>>

(* ------------------------------- Init -------------------------------- *)
Init ==
    /\ args \in ValidCtorArgs
    /\ loader = Constructor(args)
    /\ channelSelections = IF loader.constructed THEN <<Zeros(Rank)>> ELSE <<>>
    /\ shared = FALSE
    /\ setResult = "none"
    /\ call = IdleCall
    /\ writes = 0
    /\ decoded = [length |-> 0, channels |-> 1, views |-> <<>>]

Next ==
    \/ \E input \in SetInputs : SetChannelSelections(input)
    \/ \E t \in TileIndices, z \in Levels : GetTile(t.x, t.y, z)
    \/ \E z \in Levels \cup {Undefined} : GetRaster(z)
    \/ \E i \in 1..MaxSels, outcome \in ReadOutcomes : ReadComplete(i, outcome)
    \/ Return
    \/ OnTileError

Spec == Init /\ [][Next]_vars

\* the same, with a caller that also writes to the arrays it holds
NextAlias ==
    \/ Next
    \/ \E i \in 1..MaxSels, j \in 1..Rank, v \in 0..MaxIndex : WriteThroughAccessor(i, j, v)
    \/ \E i \in 1..MaxSels, j \in 1..Rank, v \in 0..MaxIndex : WriteToPassedSelection(i, j, v)

\* ... on the loaders built from one array with the other arguments omitted
InitAlias ==
    /\ Init
    /\ ~args.isArray
    /\ args.isRgb = "omitted"
    /\ ~args.dimensions.given

SpecAlias == InitAlias /\ [][NextAlias]_vars

\* channel splitting applied to every buffer length and channel count
InitDecode ==
    /\ Init
    /\ args = [isArray |-> FALSE, data |-> <<[shape |-> <<8, 8>>, chunks |-> <<2, 2>>]>>,
               dimensions |-> [given |-> FALSE, length |-> 0], isRgb |-> "omitted"]

NextDecode ==
    \E length \in 0..MaxBufLen, channelChunkSize \in 1..MaxChannels :
        DecodeChannels(length, channelChunkSize)

SpecDecode == InitDecode /\ [][NextDecode]_vars

(* ------------------------------ claims ------------------------------- *)
InitialSelections == <<Zeros(Rank)>>

SetErrors == {"NamedSelectionError", "ResolverError", "MultipleSelectionsError",
              "LengthError", "ChunkError"}

\* A step of setChannelSelections: the only operation that leaves the call
\* in flight alone.
SetStep == call' = call /\ writes' = writes /\ decoded' = decoded

\* C1: a setChannelSelections call that throws, whatever the error, leaves
\* the active selection set as it was before the call.
C1_FailedSetKeepsSelections ==
    [][(SetStep /\ setResult' \in SetErrors) => channelSelections' = channelSelections]_vars

\* a call failed on a wrong length after an earlier call had installed two
\* selections
C1_Witness ==
    /\ setResult = "LengthError"
    /\ Len(channelSelections) = 2
    /\ channelSelections # InitialSelections

Overwritten(c, d) ==
    \/ d - 1 \in {loader.xIndex, loader.yIndex}
    \/ c.kind = "raster"

\* C2: the requests of a call in flight are built from one selection set,
\* the one active when the call was made, whatever setChannelSelections
\* calls come in between: one request per selection of that set, each
\* carrying that selection's entries at every axis the call does not
\* overwrite.
C2_ReadsFromOneSet ==
    call.status # "idle" =>
        /\ Len(call.reads) = Len(call.sels)
        /\ \A i \in DOMAIN call.reads :
              /\ Len(call.reads[i]) = Len(call.sels[i])
              /\ \A d \in DOMAIN call.reads[i] :
                    \/ call.reads[i][d] = call.sels[i][d]
                    \/ Overwritten(call, d) /\ call.reads[i][d] # call.sels[i][d]
        /\ \A i \in DOMAIN call.values :
              call.values[i].st = "ok" => call.values[i].key = call.reads[i]

\* a getTile over two different selections is still waiting for a read
\* while a later setChannelSelections has replaced the set
C2_Witness ==
    /\ call.kind = "tile"
    /\ call.status = "pending"
    /\ Len(call.sels) = 2
    /\ call.sels[1] # call.sels[2]
    /\ \E i \in DOMAIN call.values : call.values[i].st = "ok"
    /\ setResult = "ok"
    /\ channelSelections # call.sels

ExpectedTileKey(sel, x, y) ==
    [d \in DOMAIN sel |->
        IF d - 1 = loader.xIndex THEN x
        ELSE IF d - 1 = loader.yIndex THEN y
        ELSE sel[d]]

\* C3: on a loader that is not packed-multichannel a getTile that succeeds
\* returns one buffer per selection of the set it was called with, the
\* buffer at position i being the one read for selection i, in whatever
\* order the reads completed.
C3_BuffersInSelectionOrder ==
    (call.kind = "tile" /\ call.status = "returned" /\ call.error = "none"
        /\ ~isUnchunkedMultiChannel) =>
        /\ Len(call.result) = Len(call.sels)
        /\ \A i \in DOMAIN call.result :
              /\ call.result[i].buffer = ExpectedTileKey(call.sels[i], call.x, call.y)
              /\ call.result[i].begin = 0
              /\ call.result[i].end = RawChunkLength

\* a getTile over two different selections has returned its two buffers
C3_Witness ==
    /\ call.kind = "tile"
    /\ call.status = "returned"
    /\ call.error = "none"
    /\ ~isUnchunkedMultiChannel
    /\ Len(call.sels) = 2
    /\ call.sels[1] # call.sels[2]
    /\ Len(call.result) = 2

Failed(c) == { i \in DOMAIN c.values : c.values[i].st = "failed" }

C5_RasterReadsOneArray ==
    (call.kind = "raster" /\ call.status # "idle") =>
        /\ call.zarr
        /\ call.level = (IF call.z # Undefined /\ isPyramid THEN call.z ELSE 0)
        /\ (call.status = "returned" /\ call.error = "none") =>
              /\ call.width = At(At(args.data, call.level).shape, loader.xIndex)
              /\ call.height = At(At(args.data, call.level).shape, loader.yIndex)

\* C6: the active selection set changes only through a setChannelSelections
\* call that succeeds; a write by the caller to the accessor's value or to
\* an array passed earlier does not change it.
C6_OnlySetChangesSelections ==
    [][channelSelections' # channelSelections =>
          (call' = call /\ writes' = writes /\ setResult' = "ok")]_vars

\* C7: an isRgb argument that is given, true or false, is the loader's
\* isRgb; the heuristic decides only when it is omitted; the X and Y axes
\* follow from the flag.
C7_OverrideDecidesLayout ==
    loader.constructed =>
        /\ args.isRgb = "true" => loader.isRgb
        /\ args.isRgb = "false" => ~loader.isRgb
        /\ args.isRgb = "omitted" => (loader.isRgb <=> guessRgb(base.shape))
        /\ loader.xIndex = (IF loader.isRgb THEN Rank - 2 ELSE Rank - 1)
        /\ loader.yIndex = (IF loader.isRgb THEN Rank - 3 ELSE Rank - 2)

\* C8: in every state reached by setChannelSelections, getTile and
\* getRaster calls the active set is valid: not empty, every selection as
\* long as the array's rank and 0 on every axis whose chunk size exceeds 1,
\* and one selection only on an interleaved or packed loader.
C8_SelectionsValid ==
    loader.constructed =>
        /\ Len(channelSelections) >= 1
        /\ \A k \in DOMAIN channelSelections :
              /\ Len(channelSelections[k]) = Len(base.shape)
              /\ \A d \in DOMAIN channelSelections[k] :
                    base.chunks[d] > 1 => channelSelections[k][d] = 0
        /\ (loader.isRgb \/ isUnchunkedMultiChannel) => Len(channelSelections) = 1

\* a setChannelSelections call has installed two different selections and
\* a getRaster call made after it has returned
C8_Witness ==
    /\ setResult = "ok"
    /\ Len(channelSelections) = 2
    /\ channelSelections[1] # channelSelections[2]
    /\ call.kind = "raster"
    /\ call.status = "returned"
    /\ call.sels = channelSelections

\* C9: the coordinate vector getRaster reads for a selection is open at Y
\* and X, at the last axis when the loader is interleaved, at the axis
\* before Y when it is packed (both when both hold), and is the selection
\* elsewhere.
C9_RasterKeyOpensAxes ==
    (call.kind = "raster" /\ call.status # "idle") =>
        \A i \in DOMAIN call.reads :
            \A d \in DOMAIN call.reads[i] :
                call.reads[i][d] =
                    IF \/ d - 1 \in {loader.xIndex, loader.yIndex}
                       \/ loader.isRgb /\ d = Len(call.reads[i])
                       \/ isUnchunkedMultiChannel /\ d - 1 = loader.yIndex - 1
                    THEN Null
                    ELSE call.sels[i][d]

Covered(view) == { n \in 0..(decoded.length - 1) : view.begin <= n /\ n < view.end }

\* C10: when the channel count divides the buffer length, splitting gives
\* one view per channel, view i over [i * (L / C), (i + 1) * (L / C)): the
\* views do not overlap, each is L / C long, together they cover [0, L).
C10_ViewsPartitionBuffer ==
    (decoded.views # <<>> /\ decoded.length % decoded.channels = 0) =>
        LET offset == decoded.length \div decoded.channels
        IN  /\ Len(decoded.views) = decoded.channels
            /\ \A k \in DOMAIN decoded.views :
                  /\ decoded.views[k].begin = (k - 1) * offset
                  /\ decoded.views[k].end = k * offset
                  /\ Cardinality(Covered(decoded.views[k])) = offset
            /\ \A k, m \in DOMAIN decoded.views :
                  k # m => Covered(decoded.views[k]) \cap Covered(decoded.views[m]) = {}
            /\ UNION { Covered(decoded.views[k]) : k \in DOMAIN decoded.views }
                  = 0..(decoded.length - 1)

\* a buffer of length 12 was split into 3 views of length 4
C10_Witness ==
    /\ decoded.length = 12
    /\ decoded.channels = 3
    /\ decoded.views = <<[begin |-> 0, end |-> 4], [begin |-> 4, end |-> 8],
                         [begin |-> 8, end |-> 12]>>

====
